---- MODULE Spec2Model ----
(***************************************************************************)
(* Model of pkg/update/update.go: the Updater's Get / Download pipeline    *)
(* (cache validation, staged download, smoke test, publish by rename)      *)
(* over an explicit file system.  A file has one name (the code makes no   *)
(* hard links), so a file is kept under its path and an open handle        *)
(* follows its file through renames; a handle whose file lost its name     *)
(* writes to a file nobody can read.                                       *)
(***************************************************************************)
EXTENDS Integers, Sequences, FiniteSets, TLC

VARIABLES
    optPlatform,  \* u.opt.Platform, the platform the artifacts are declared for
    runPlatform,  \* constant.PlatformName, the platform the process runs on
    channels,     \* the update channels the deployment is configured with
    req,          \* two requests <<target, platform, channel>> whose paths are compared
    out,          \* the local and repository paths computed for the two requests
    fs,           \* the files: path -> Absent | Directory | BrokenLink | content
    meta,         \* the client's local trust metadata: repo path -> artifact | NoTarget
    faults,       \* calls killed, and removals of a staging file that failed, so far
    pc,           \* per call slot: the position of the call
    entry,        \* per call slot: "Get" or "Download", the method the caller invoked
    target,       \* per call slot: argument target
    channel,      \* per call slot: argument channel
    tmeta,        \* per call slot: the TargetMeta in use (Get's meta, then the fetch's)
    tmp,          \* per call slot: where the file behind the handle tmp is: a path, Unlinked, Closed
    src,          \* per call slot: the byte stream the remote store is delivering
    wpos,         \* per call slot: bytes of the stream written so far (the handle's offset)
    err,          \* per call slot: an error is being returned through the deferred cleanup
    ret,          \* per call slot: outcome of the last call: "none", "ok", "err", "crash"
    retPath,      \* per call slot: the path the last Get returned
    failStep,     \* per call slot: the step that failed in the call
    preFs,        \* per call slot: the files as they were when the call began
    fetches,      \* per call slot: fetches started by the call
    preRename,    \* per call slot: the Windows pre-rename of the call: "none", "moved", "missing", "failed"
    smoke,        \* per call slot: the smoke test of the call: "none", "pass", "fail", "skipped"
    refresh,      \* what the last metadata refresh reported: "none", "updated", "latest", "failed"
    updErr,       \* UpdateMetadata returned an error
    lastGet,      \* <<target, channel, fetches>> of the last call, when it was a successful
                  \* Get and nothing has changed since; <<>> otherwise
    second        \* per call slot: the call repeats lastGet

vars == <<optPlatform, runPlatform, channels, req, out, fs, meta, faults, pc, entry, target, channel,
          tmeta, tmp, src, wpos, err, ret, retPath, failStep, preFs, fetches, smoke,
          preRename, refresh, updErr, lastGet, second>>

env == <<optPlatform, runPlatform, channels, req, out>>

-----------------------------------------------------------------------------
(* Bounds *)

\* Calls that are killed, and deferred removals that fail, during a run.
MaxFaults == 1

(* Program constants and the values of the model *)

binDir == "bin"
stagingDir == "staging"
Root == "root"

Platforms == {"linux", "windows"}
Targets == {"orbit"}
Channels == {"stable", "beta"}
Procs == {1, 2}

\* The artifacts the repository can declare for a target.
Artifacts == {<<1, 2>>, <<1>>, <<2>>}
NoTarget == <<0>>

HashAlgorithms == {"sha256", "sha512"}

-----------------------------------------------------------------------------
(* Paths *)

ExecutableExtension(platform) == IF platform = "windows" THEN ".exe" ELSE ""

RepoPath(t, c) == <<t, optPlatform, c, t \o ExecutableExtension(optPlatform)>>

pathFromRoot(parts) == <<Root>> \o parts

LocalPath(t, c) ==
    pathFromRoot(<<binDir, t, optPlatform, c, t \o ExecutableExtension(optPlatform)>>)

Base(path) == path[Len(path)]

StagingPath(localPath) == <<Root, stagingDir, Base(localPath)>>

OldPath(localPath) == [localPath EXCEPT ![Len(localPath)] = @ \o ".old"]

LocalPaths == {LocalPath(t, c) : t \in Targets, c \in channels}
RepoPaths == {RepoPath(t, c) : t \in Targets, c \in channels}
Paths == LocalPaths \cup {OldPath(l) : l \in LocalPaths}
                    \cup {StagingPath(l) : l \in LocalPaths}

-----------------------------------------------------------------------------
(* Paths as strings: a string is the sequence of its characters, and Join   *)
(* is path.Join / filepath.Join: the empty elements are dropped, the rest   *)
(* joined by the separator, and the result cleaned.                         *)

Sep == "/"

Spell == [x \in {Root, binDir, "windows", "linux", ".exe"} |->
            CASE x = Root -> <<"r", "o", "o", "t">>
              [] x = binDir -> <<"b", "i", "n">>
              [] x = "windows" -> <<"w", "i", "n", "d", "o", "w", "s">>
              [] x = "linux" -> <<"l", "i", "n", "u", "x">>
              [] x = ".exe" -> <<".", "e", "x", "e">>]

Dot == <<".">>
DotDot == <<".", ".">>

\* The elements between the separators of a path.
RECURSIVE Split(_)
Split(path) ==
    IF path = <<>> THEN <<<<>>>>
    ELSE LET rest == Split(Tail(path))
         IN  IF Head(path) = Sep THEN <<<<>>>> \o rest
             ELSE <<<<Head(path)>> \o rest[1]>> \o Tail(rest)

\* The elements joined by the separator.
RECURSIVE Glue(_)
Glue(parts) ==
    IF parts = <<>> THEN <<>>
    ELSE IF Len(parts) = 1 THEN parts[1]
    ELSE parts[1] \o <<Sep>> \o Glue(Tail(parts))

\* Clean's pass over the elements: empty and "." elements are dropped, a
\* ".." removes the element before it, or stays when a relative path has
\* nothing left to remove.
RECURSIVE CleanParts(_, _, _)
CleanParts(parts, kept, rooted) ==
    IF parts = <<>> THEN kept
    ELSE LET e == Head(parts)
             next == IF e = <<>> \/ e = Dot THEN kept
                     ELSE IF e = DotDot
                     THEN IF kept # <<>> /\ kept[Len(kept)] # DotDot
                          THEN SubSeq(kept, 1, Len(kept) - 1)
                          ELSE IF rooted THEN kept ELSE Append(kept, e)
                     ELSE Append(kept, e)
         IN  CleanParts(Tail(parts), next, rooted)

Clean(path) ==
    IF path = <<>> THEN Dot
    ELSE LET rooted == path[1] = Sep
             body == Glue(CleanParts(Split(path), <<>>, rooted))
         IN  IF rooted THEN <<Sep>> \o body
             ELSE IF body = <<>> THEN Dot ELSE body

Join(elems) ==
    LET given == SelectSeq(elems, LAMBDA e : e # <<>>)
    IN  IF given = <<>> THEN <<>> ELSE Clean(Glue(given))

ExtensionOf(platform) == IF platform = Spell["windows"] THEN Spell[".exe"] ELSE <<>>

\* Mutant of LocalPathOf: the platform is left out of the path.
LocalPathWithoutPlatform(t, platform, c) ==
    Join(<<Spell[Root], Join(<<Spell[binDir], t, c, t \o ExtensionOf(platform)>>)>>)

\* u.LocalPath(target, channel) of an Updater for the platform.
LocalPathOf(t, platform, c) ==
    Join(<<Spell[Root], Join(<<Spell[binDir], t, platform, c, t \o ExtensionOf(platform)>>)>>)

\* u.RepoPath(target, channel) of an Updater for the platform.
RepoPathOf(t, platform, c) == Join(<<t, platform, c, t \o ExtensionOf(platform)>>)

\* The names of the requests: none contains a separator.
Names == {<<>>, Dot, DotDot, <<"a">>, <<"b">>, <<"a", ".", "e", "x", "e">>}
PlatformNames == Names \cup {Spell["windows"]}
Requests == Names \X PlatformNames \X Names

NoRequest == <<>>
NoPaths == [local |-> <<>>, repo |-> <<>>]

-----------------------------------------------------------------------------
(* Hashes and target metadata *)

Min(a, b) == IF a < b THEN a ELSE b

AlgBase(alg) == IF alg = "sha256" THEN 3 ELSE 5

\* A digest of the content: collision-free on the contents of the model.
RECURSIVE Hash(_, _)
Hash(alg, content) ==
    IF content = <<>> THEN 1
    ELSE Hash(alg, SubSeq(content, 1, Len(content) - 1)) * AlgBase(alg)
         + content[Len(content)]

TargetMeta(content) ==
    [length |-> Len(content),
     hashes |-> [alg \in HashAlgorithms |-> Hash(alg, content)]]

NoMeta == [length |-> 0 - 1, hashes |-> << >>]

\* Every algorithm of the metadata matches the content.
CheckFileHash(m, content) ==
    \A alg \in DOMAIN m.hashes : Hash(alg, content) = m.hashes[alg]

\* The fetch's verification of the bytes it streamed: length and every hash.
StreamVerified(m, streamed) ==
    /\ Len(streamed) = m.length
    /\ \A alg \in DOMAIN m.hashes : Hash(alg, streamed) = m.hashes[alg]

\* What the remote store delivers for one fetch: some bytes, then the end of
\* the stream or a transport error.
NoStream == [bytes |-> <<>>, fails |-> FALSE]

Prefixes(s) == {SubSeq(s, 1, n) : n \in 0..Len(s)}

RemotePayloads == UNION {Prefixes(a) : a \in Artifacts}

\* Whether a binary with this content answers --version with exit status 0.
SmokeOK(content) == content # <<>> /\ content[1] = 1

-----------------------------------------------------------------------------
(* File system *)

Absent == <<0>>
Directory == <<0, 0>>

\* A symbolic link that does not resolve (a loop, or a link to nothing):
\* the entry exists, and os.Stat of it fails.
BrokenLink == <<0, 0, 0>>

IsFile(path) == fs[path] \notin {Absent, Directory, BrokenLink}

\* A handle that is closed, and one whose file has no name any more.
Closed == <<"closed">>
Unlinked == <<"unlinked">>

\* Writing one byte at offset pos of a file.
WriteAt(content, pos, b) ==
    IF pos < Len(content) THEN [content EXCEPT ![pos + 1] = b]
    ELSE Append(content, b)

\* On Windows a file held open (without delete sharing) cannot be renamed,
\* replaced or removed.
Busy(h, path) ==
    /\ runPlatform = "windows"
    /\ \E q \in Procs : h[q] = path

\* os.Rename(from, to) can succeed.
CanRename(from, to) ==
    /\ fs[from] # Absent
    /\ fs[to] # Directory
    /\ (fs[from] = Directory => fs[to] = Absent)
    /\ ~Busy(tmp, from)
    /\ ~Busy(tmp, to)

Renamed(from, to) == [fs EXCEPT ![to] = fs[from], ![from] = Absent]

\* The handles after a rename: they follow the file that moved, and the
\* file that was replaced has no name any more.
HandlesAfterRename(from, to) ==
    [q \in Procs |-> IF tmp[q] = from THEN to
                     ELSE IF tmp[q] = to THEN Unlinked
                     ELSE tmp[q]]

-----------------------------------------------------------------------------
(* Initial state: the state after New().  The local paths hold whatever an  *)
(* earlier run of the agent left there; the staging directory is empty.     *)

InitialFiles == {Absent, Directory, BrokenLink, <<1>>, <<2>>}

InitCalls ==
    /\ pc = [p \in Procs |-> "idle"]
    /\ entry = [p \in Procs |-> "none"]
    /\ target = [p \in Procs |-> ""]
    /\ channel = [p \in Procs |-> ""]
    /\ tmeta = [p \in Procs |-> NoMeta]
    /\ tmp = [p \in Procs |-> Closed]
    /\ src = [p \in Procs |-> NoStream]
    /\ wpos = [p \in Procs |-> 0]
    /\ err = [p \in Procs |-> FALSE]
    /\ ret = [p \in Procs |-> "none"]
    /\ retPath = [p \in Procs |-> <<>>]
    /\ failStep = [p \in Procs |-> "none"]
    /\ preFs = [p \in Procs |-> fs]
    /\ fetches = [p \in Procs |-> 0]
    /\ smoke = [p \in Procs |-> "none"]
    /\ preRename = [p \in Procs |-> "none"]
    /\ refresh = "none"
    /\ updErr = FALSE
    /\ req = NoRequest
    /\ out = NoPaths
    /\ lastGet = <<>>
    /\ second = [p \in Procs |-> FALSE]
    /\ faults = 0

\* The files and the metadata of a deployment on one channel.
Init ==
    /\ optPlatform \in Platforms
    /\ runPlatform \in Platforms
    /\ channels = {"stable"}
    /\ meta \in [RepoPaths -> Artifacts \cup {NoTarget}]
    /\ \E stable \in InitialFiles :
         fs = [x \in Paths |-> IF x = LocalPath("orbit", "stable") THEN stable ELSE Absent]
    /\ InitCalls

-----------------------------------------------------------------------------
(* Calls *)

args == <<entry, target, channel, preFs, second, refresh, updErr>>
stream == <<src, wpos>>
result == <<ret, retPath, lastGet>>

lp(p) == LocalPath(target[p], channel[p])
rp(p) == RepoPath(target[p], channel[p])
stg(p) == StagingPath(lp(p))

\* The call returns to its caller: Get returns (path, error), Download error.
Return(p, outcome, path, step) ==
    /\ pc' = [pc EXCEPT ![p] = "idle"]
    /\ ret' = [ret EXCEPT ![p] = outcome]
    /\ retPath' = [retPath EXCEPT ![p] = IF entry[p] = "Get" THEN path ELSE <<>>]
    /\ failStep' = [failStep EXCEPT ![p] = step]
    /\ lastGet' = IF outcome = "ok" /\ entry[p] = "Get"
                  THEN <<target[p], channel[p], fetches[p]>>
                  ELSE <<>>
    /\ tmeta' = [tmeta EXCEPT ![p] = NoMeta]
    /\ src' = [src EXCEPT ![p] = NoStream]
    /\ wpos' = [wpos EXCEPT ![p] = 0]

\* The call goes on to its next step.
Goto(p, next) ==
    /\ pc' = [pc EXCEPT ![p] = next]
    /\ UNCHANGED <<err, failStep, result>>

\* The call's metadata and stream stay as they are.
Keep == UNCHANGED <<tmeta, src, wpos>>

\* A step of Download failed after the deferred cleanup was registered.
FailTo(p, step) ==
    /\ pc' = [pc EXCEPT ![p] = "cleanup"]
    /\ err' = [err EXCEPT ![p] = TRUE]
    /\ failStep' = [failStep EXCEPT ![p] = step]
    /\ UNCHANGED result

Repeats(method, t, c) ==
    /\ method = "Get"
    /\ Len(lastGet) = 3
    /\ lastGet[1] = t
    /\ lastGet[2] = c

Begin(p, method, t, c) ==
    /\ pc[p] = "idle"
    /\ entry' = [entry EXCEPT ![p] = method]
    /\ target' = [target EXCEPT ![p] = t]
    /\ channel' = [channel EXCEPT ![p] = c]
    /\ preFs' = [preFs EXCEPT ![p] = fs]
    /\ fetches' = [fetches EXCEPT ![p] = 0]
    /\ smoke' = [smoke EXCEPT ![p] = "none"]
    /\ preRename' = [preRename EXCEPT ![p] = "none"]
    /\ err' = [err EXCEPT ![p] = FALSE]
    /\ tmeta' = [tmeta EXCEPT ![p] = NoMeta]
    /\ src' = [src EXCEPT ![p] = NoStream]
    /\ wpos' = [wpos EXCEPT ![p] = 0]
    /\ retPath' = [retPath EXCEPT ![p] = <<>>]
    /\ second' = [second EXCEPT ![p] = Repeats(method, t, c)]
    /\ refresh' = "none"
    /\ updErr' = FALSE
    /\ lastGet' = IF Repeats(method, t, c) THEN lastGet ELSE <<>>
    /\ UNCHANGED <<env, fs, meta, faults, tmp>>

\* Get(target, channel): the argument checks and the path computation.
CallGet(p, t, c) ==
    /\ Begin(p, "Get", t, c)
    /\ IF t = "" \/ c = ""
       THEN /\ pc' = pc
            /\ ret' = [ret EXCEPT ![p] = "err"]
            /\ failStep' = [failStep EXCEPT ![p] = "args"]
       ELSE /\ pc' = [pc EXCEPT ![p] = "stat"]
            /\ ret' = [ret EXCEPT ![p] = "none"]
            /\ failStep' = [failStep EXCEPT ![p] = "none"]

\* Download(repoPath, localPath) called directly.
CallDownload(p, t, c) ==
    /\ Begin(p, "Download", t, c)
    /\ pc' = [pc EXCEPT ![p] = "mkstaging"]
    /\ ret' = [ret EXCEPT ![p] = "none"]
    /\ failStep' = [failStep EXCEPT ![p] = "none"]

\* os.Stat(path) can return without an error: the entry exists and
\* resolves.
CanStat(path) == fs[path] \notin {Absent, BrokenLink}

\* os.Stat(localPath) and the regular-file check: any error of os.Stat,
\* whatever is at the path, sends the call to Download.
Stat(p) ==
    /\ pc[p] = "stat"
    /\ \E ok \in BOOLEAN :
         IF ~(ok /\ CanStat(lp(p)))
         THEN Goto(p, "mkstaging") /\ Keep
         ELSE IF fs[lp(p)] = Directory
         THEN Return(p, "err", <<>>, "stat") /\ UNCHANGED err
         ELSE Goto(p, "lookup") /\ Keep
    /\ UNCHANGED <<env, fs, meta, faults, args, tmp, fetches, smoke, preRename>>

\* u.Lookup(target, channel): the TargetMeta of the repository path.
Lookup(p) ==
    /\ pc[p] = "lookup"
    /\ IF meta[rp(p)] = NoTarget
       THEN /\ Return(p, "err", <<>>, "lookup")
            /\ UNCHANGED err
       ELSE /\ Goto(p, "checkhash")
            /\ tmeta' = [tmeta EXCEPT ![p] = TargetMeta(meta[rp(p)])]
            /\ UNCHANGED stream
    /\ UNCHANGED <<env, fs, meta, faults, args, tmp, fetches, smoke, preRename>>

\* CheckFileHash(meta, localPath) finds no difference.
CachedValid(p) == IsFile(lp(p)) /\ CheckFileHash(tmeta[p], fs[lp(p)])

\* A match returns the cached path; anything else goes to Download.
CheckHash(p) ==
    /\ pc[p] = "checkhash"
    /\ IF CachedValid(p)
       THEN Return(p, "ok", lp(p), "none") /\ UNCHANGED err
       ELSE Goto(p, "mkstaging") /\ Keep
    /\ UNCHANGED <<env, fs, meta, faults, args, tmp, fetches, smoke, preRename>>

-----------------------------------------------------------------------------
(* Download *)

\* Download returns an error before the deferred cleanup is registered.
ReturnEarly(p, step) == Return(p, "err", lp(p), step) /\ UNCHANGED err

\* os.MkdirAll(staging) and ChmodExecutableDirectory(staging).
MkStaging(p) ==
    /\ pc[p] = "mkstaging"
    /\ \E ok \in BOOLEAN :
         IF ok THEN Goto(p, "open") /\ Keep ELSE ReturnEarly(p, "mkstaging")
    /\ UNCHANGED <<env, fs, meta, faults, args, tmp, fetches, smoke, preRename>>

\* The file os.OpenFile(path, O_CREATE|O_WRONLY) leaves at the path: the
\* existing file as it is, or a new empty one.
Opened(content) == IF content = Absent THEN <<>> ELSE content

\* os.OpenFile of the staging file; the deferred cleanup is registered.
OpenTmp(p) ==
    /\ pc[p] = "open"
    /\ \E ok \in BOOLEAN :
         IF ok /\ fs[stg(p)] # Directory
         THEN /\ fs' = [fs EXCEPT ![stg(p)] = Opened(@)]
              /\ tmp' = [tmp EXCEPT ![p] = stg(p)]
              /\ wpos' = [wpos EXCEPT ![p] = 0]
              /\ Goto(p, "chmod")
              /\ UNCHANGED <<tmeta, src>>
         ELSE /\ ReturnEarly(p, "open")
              /\ UNCHANGED <<fs, tmp>>
    /\ UNCHANGED <<env, meta, faults, args, fetches, smoke, preRename>>

\* platform.ChmodExecutable(tmp.Name()).
ChmodTmp(p) ==
    /\ pc[p] = "chmod"
    /\ \E ok \in BOOLEAN :
         IF ok THEN Goto(p, "mkdest") ELSE FailTo(p, "chmod")
    /\ UNCHANGED <<env, fs, meta, faults, args, tmeta, tmp, stream, fetches, smoke, preRename>>

\* os.MkdirAll(Dir(localPath)) and ChmodExecutableDirectory of it.
MkDest(p) ==
    /\ pc[p] = "mkdest"
    /\ \E ok \in BOOLEAN :
         IF ok THEN Goto(p, "fetch") ELSE FailTo(p, "mkdest")
    /\ UNCHANGED <<env, fs, meta, faults, args, tmeta, tmp, stream, fetches, smoke, preRename>>

\* The bytes that pass the reader limited to the declared length.
Limited(payload, m) == SubSeq(payload, 1, Min(Len(payload), m.length))

\* u.client.Download(repoPath, dest) begins: the target's metadata is
\* resolved and the remote store starts delivering a stream.
FetchBegin(p) ==
    /\ pc[p] = "fetch"
    /\ IF meta[rp(p)] = NoTarget
       THEN /\ FailTo(p, "fetch")
            /\ UNCHANGED <<tmeta, src, wpos, fetches>>
       ELSE /\ fetches' = [fetches EXCEPT ![p] = @ + 1]
            /\ tmeta' = [tmeta EXCEPT ![p] = TargetMeta(meta[rp(p)])]
            /\ \E payload \in RemotePayloads, fails \in BOOLEAN :
                 src' = [src EXCEPT ![p] =
                           [bytes |-> Limited(payload, TargetMeta(meta[rp(p)])),
                            fails |-> fails]]
            /\ wpos' = [wpos EXCEPT ![p] = 0]
            /\ Goto(p, "write")
    /\ UNCHANGED <<env, fs, meta, faults, args, tmp, smoke, preRename>>

\* The file system after one byte is written through the handle of p.
Written(p) ==
    IF tmp[p] \in Paths
    THEN [fs EXCEPT ![tmp[p]] = WriteAt(@, wpos[p], src[p].bytes[wpos[p] + 1])]
    ELSE fs

\* One chunk of the stream is written to the staging file through the handle.
FetchWrite(p) ==
    /\ pc[p] = "write"
    /\ wpos[p] < Len(src[p].bytes)
    /\ \E ok \in BOOLEAN :
         IF ok /\ tmp[p] # Closed
         THEN /\ fs' = Written(p)
              /\ wpos' = [wpos EXCEPT ![p] = @ + 1]
              /\ UNCHANGED <<pc, err, failStep, result>>
         ELSE /\ FailTo(p, "fetch")
              /\ UNCHANGED <<fs, wpos>>
    /\ UNCHANGED <<env, meta, faults, args, tmeta, tmp, src, fetches, smoke, preRename>>

\* The stream ended: the fetch verifies what it streamed against the metadata.
FetchEnd(p) ==
    /\ pc[p] = "write"
    /\ wpos[p] = Len(src[p].bytes)
    /\ IF ~src[p].fails /\ StreamVerified(tmeta[p], src[p].bytes)
       THEN Goto(p, "close")
       ELSE FailTo(p, "fetch")
    /\ UNCHANGED <<env, fs, meta, faults, args, tmeta, tmp, stream, fetches, smoke, preRename>>

\* Mutant of CloseTmp: the error of the close is dropped.
CloseTmpErrorDropped(p) ==
    /\ pc[p] = "close"
    /\ \E ok \in BOOLEAN :
         /\ tmp' = IF ok THEN [tmp EXCEPT ![p] = Closed] ELSE tmp
         /\ Goto(p, "smoke")
    /\ UNCHANGED <<env, fs, meta, faults, args, tmeta, stream, fetches, smoke, preRename>>

\* tmp.Close().
CloseTmp(p) ==
    /\ pc[p] = "close"
    /\ \E ok \in BOOLEAN :
         IF ok
         THEN /\ tmp' = [tmp EXCEPT ![p] = Closed]
              /\ Goto(p, "smoke")
         ELSE /\ FailTo(p, "close")
              /\ UNCHANGED tmp
    /\ UNCHANGED <<env, fs, meta, faults, args, tmeta, stream, fetches, smoke, preRename>>

\* Mutant of ShouldSmokeTest: the platform comparison is left out.
SmokeTestAlways == TRUE

\* The smoke test runs only when the declared platform is the running one.
ShouldSmokeTest == optPlatform = runPlatform

\* exec.Command(tmp.Name(), "--version") can succeed: the file at the
\* staging path exists, nobody holds it open for writing, and the binary
\* answers the version query with exit status 0.
ExecOK(path) ==
    /\ IsFile(path)
    /\ \A q \in Procs : tmp[q] # path
    /\ SmokeOK(fs[path])

\* The step after the smoke test: the pre-rename exists only on Windows.
Publish == IF runPlatform = "windows" THEN "prerename" ELSE "rename"

\* The smoke test: exec.Command(tmp.Name(), "--version").CombinedOutput(),
\* which returns an error when the binary cannot run or exits non-zero, and
\* when the start of the process fails for a reason outside the file.
SmokeTest(p) ==
    /\ pc[p] = "smoke"
    /\ IF ShouldSmokeTest
       THEN \E ok \in BOOLEAN :
              IF ok /\ ExecOK(stg(p))
              THEN /\ smoke' = [smoke EXCEPT ![p] = "pass"]
                   /\ Goto(p, Publish)
              ELSE /\ smoke' = [smoke EXCEPT ![p] = "fail"]
                   /\ FailTo(p, "exec")
       ELSE /\ smoke' = [smoke EXCEPT ![p] = "skipped"]
            /\ Goto(p, Publish)
    /\ UNCHANGED <<env, fs, meta, faults, args, tmeta, tmp, stream, fetches, preRename>>

\* Windows: os.Rename(localPath, localPath+".old").  With nothing at
\* localPath the rename fails: with "does not exist", which is ignored, or
\* with another error, which fails the call like any error of a rename of
\* an existing entry.
PreRename(p) ==
    /\ pc[p] = "prerename"
    /\ \E ok \in BOOLEAN :
         IF fs[lp(p)] = Absent /\ ok
         THEN /\ preRename' = [preRename EXCEPT ![p] = "missing"]
              /\ Goto(p, "rename")
              /\ UNCHANGED <<fs, tmp>>
         ELSE IF ok /\ CanRename(lp(p), OldPath(lp(p)))
         THEN /\ preRename' = [preRename EXCEPT ![p] = "moved"]
              /\ fs' = Renamed(lp(p), OldPath(lp(p)))
              /\ tmp' = HandlesAfterRename(lp(p), OldPath(lp(p)))
              /\ Goto(p, "rename")
         ELSE /\ preRename' = [preRename EXCEPT ![p] = "failed"]
              /\ FailTo(p, "prerename")
              /\ UNCHANGED <<fs, tmp>>
    /\ UNCHANGED <<env, meta, faults, args, tmeta, stream, fetches, smoke>>

\* os.Rename(tmp.Name(), localPath): the publish.
FinalRename(p) ==
    /\ pc[p] = "rename"
    /\ \E ok \in BOOLEAN :
         IF ok /\ CanRename(stg(p), lp(p))
         THEN /\ fs' = Renamed(stg(p), lp(p))
              /\ tmp' = HandlesAfterRename(stg(p), lp(p))
              /\ Goto(p, "cleanup")
         ELSE /\ FailTo(p, "rename")
              /\ UNCHANGED <<fs, tmp>>
    /\ UNCHANGED <<env, meta, faults, args, tmeta, stream, fetches, smoke, preRename>>

\* The handles once p has closed its own.
ClosedBy(p) == [tmp EXCEPT ![p] = Closed]

\* os.Remove(path) can succeed.
CanRemove(h, path) == IsFile(path) /\ ~Busy(h, path)

\* The deferred function, first statement: tmp.Close(), whose error is
\* ignored.
CleanupClose(p) ==
    /\ pc[p] = "cleanup"
    /\ tmp' = ClosedBy(p)
    /\ Goto(p, "remove")
    /\ UNCHANGED <<env, fs, meta, faults, args, tmeta, stream, fetches, smoke, preRename>>

\* The deferred function, second statement: os.Remove(tmp.Name()), whose
\* error is ignored; then Download returns, and Get returns what it
\* returned.
CleanupRemove(p) ==
    /\ pc[p] = "remove"
    /\ \E ok \in BOOLEAN :
         IF ok /\ CanRemove(tmp, stg(p))
         THEN /\ fs' = [fs EXCEPT ![stg(p)] = Absent]
              /\ tmp' = [q \in Procs |-> IF tmp[q] = stg(p) THEN Unlinked ELSE tmp[q]]
              /\ faults' = faults
         ELSE /\ CanRemove(tmp, stg(p)) => faults < MaxFaults
              /\ fs' = fs
              /\ tmp' = tmp
              /\ faults' = IF CanRemove(tmp, stg(p)) THEN faults + 1 ELSE faults
    /\ Return(p, IF err[p] THEN "err" ELSE "ok", lp(p), failStep[p])
    /\ UNCHANGED <<env, meta, args, err, fetches, smoke, preRename>>

\* The process is killed inside a call: nothing more of the call runs, the
\* operating system closes the handle, and nothing of the call is left but
\* the files.
Crash(p) ==
    /\ pc[p] # "idle"
    /\ faults < MaxFaults
    /\ faults' = faults + 1
    /\ tmp' = ClosedBy(p)
    /\ pc' = [pc EXCEPT ![p] = "idle"]
    /\ ret' = [ret EXCEPT ![p] = "crash"]
    /\ lastGet' = <<>>
    /\ tmeta' = [tmeta EXCEPT ![p] = NoMeta]
    /\ src' = [src EXCEPT ![p] = NoStream]
    /\ wpos' = [wpos EXCEPT ![p] = 0]
    /\ entry' = [entry EXCEPT ![p] = "none"]
    /\ target' = [target EXCEPT ![p] = ""]
    /\ channel' = [channel EXCEPT ![p] = ""]
    /\ preFs' = [preFs EXCEPT ![p] = fs]
    /\ second' = [second EXCEPT ![p] = FALSE]
    /\ err' = [err EXCEPT ![p] = FALSE]
    /\ retPath' = [retPath EXCEPT ![p] = <<>>]
    /\ failStep' = [failStep EXCEPT ![p] = "none"]
    /\ fetches' = [fetches EXCEPT ![p] = 0]
    /\ smoke' = [smoke EXCEPT ![p] = "none"]
    /\ preRename' = [preRename EXCEPT ![p] = "none"]
    /\ UNCHANGED <<env, fs, meta, refresh, updErr>>

\* What u.client.Update() can report: new metadata, the error "already at
\* the latest snapshot", or another error.
RefreshOutcomes == {"updated", "latest", "failed"}

\* The metadata after a refresh with the outcome: only a refresh that
\* succeeds brings new targets.
Refreshed(outcome) ==
    IF outcome = "updated"
    THEN [RepoPaths -> Artifacts \cup {NoTarget}] \ {meta}
    ELSE {meta}

\* Mutant of UpdateMetadata: the latest-snapshot error is returned like any
\* other.
UpdateMetadataLatestIsError ==
    /\ \E outcome \in RefreshOutcomes :
         /\ refresh' = outcome
         /\ meta' \in Refreshed(outcome)
         /\ updErr' = (outcome # "updated")
         /\ lastGet' = IF outcome = "updated" THEN <<>> ELSE lastGet
    /\ UNCHANGED <<env, fs, faults, pc, entry, target, channel, preFs, second, tmeta,
                   tmp, stream, err, ret, retPath, failStep, fetches, smoke, preRename>>

\* UpdateMetadata(): u.client.Update(), whose error is returned unless it is
\* the latest-snapshot error.
UpdateMetadata ==
    /\ \E outcome \in RefreshOutcomes :
         /\ refresh' = outcome
         /\ meta' \in Refreshed(outcome)
         /\ updErr' = (outcome # "updated" /\ outcome # "latest")
         /\ lastGet' = IF outcome = "updated" THEN <<>> ELSE lastGet
    /\ UNCHANGED <<env, fs, faults, pc, entry, target, channel, preFs, second, tmeta,
                   tmp, stream, err, ret, retPath, failStep, fetches, smoke, preRename>>

-----------------------------------------------------------------------------
(* Specifications *)

Idle == \A q \in Procs : pc[q] = "idle"

Call(p) ==
    \/ \E t \in Targets \cup {""}, c \in channels \cup {""} : CallGet(p, t, c)
    \/ \E t \in Targets, c \in channels : CallDownload(p, t, c)

Step(p) ==
    \/ Stat(p)
    \/ Lookup(p)
    \/ CheckHash(p)
    \/ MkStaging(p)
    \/ OpenTmp(p)
    \/ ChmodTmp(p)
    \/ MkDest(p)
    \/ FetchBegin(p)
    \/ FetchWrite(p)
    \/ FetchEnd(p)
    \/ CloseTmp(p)
    \/ SmokeTest(p)
    \/ PreRename(p)
    \/ FinalRename(p)
    \/ CleanupClose(p)
    \/ CleanupRemove(p)

\* One caller, one call at a time; the process can be killed at any point.
Caller == 1

Next ==
    \/ Idle /\ Call(Caller)
    \/ Step(Caller)
    \/ Crash(Caller)
    \/ Idle /\ UpdateMetadata

Spec == Init /\ [][Next]_vars

\* Callers that run their calls concurrently, in a deployment on two
\* channels that starts with nothing installed.
InitConc ==
    /\ optPlatform = "linux"
    /\ runPlatform \in Platforms
    /\ channels = Channels
    /\ meta = [r \in RepoPaths |-> IF r = RepoPath("orbit", "stable") THEN <<1, 2>> ELSE <<1>>]
    /\ fs = [x \in Paths |-> Absent]
    /\ InitCalls

\* Each caller makes one call.
NextConc ==
    \/ \E p \in Procs : ret[p] = "none" /\ Call(p)
    \/ \E p \in Procs : Step(p)

SpecConc == InitConc /\ [][NextConc]_vars

\* The paths of two requests: the requests are drawn at the start and
\* Resolve computes the local and the repository path of each.
updater == <<optPlatform, runPlatform, channels, fs, meta, faults, pc, entry, target,
             channel, tmeta, tmp, src, wpos, err, ret, retPath, failStep, preFs,
             fetches, smoke, preRename, refresh, updErr, lastGet, second>>

InitPaths ==
    /\ optPlatform = "linux"
    /\ runPlatform = "linux"
    /\ channels = {"stable"}
    /\ meta = [r \in RepoPaths |-> NoTarget]
    /\ fs = [x \in Paths |-> Absent]
    /\ pc = [p \in Procs |-> "idle"]
    /\ entry = [p \in Procs |-> "none"]
    /\ target = [p \in Procs |-> ""]
    /\ channel = [p \in Procs |-> ""]
    /\ tmeta = [p \in Procs |-> NoMeta]
    /\ tmp = [p \in Procs |-> Closed]
    /\ src = [p \in Procs |-> NoStream]
    /\ wpos = [p \in Procs |-> 0]
    /\ err = [p \in Procs |-> FALSE]
    /\ ret = [p \in Procs |-> "none"]
    /\ retPath = [p \in Procs |-> <<>>]
    /\ failStep = [p \in Procs |-> "none"]
    /\ preFs = [p \in Procs |-> fs]
    /\ fetches = [p \in Procs |-> 0]
    /\ smoke = [p \in Procs |-> "none"]
    /\ preRename = [p \in Procs |-> "none"]
    /\ refresh = "none"
    /\ updErr = FALSE
    /\ lastGet = <<>>
    /\ second = [p \in Procs |-> FALSE]
    /\ faults = 0
    /\ req \in Requests \X Requests
    /\ out = NoPaths

Resolve ==
    /\ out = NoPaths
    /\ out' = [local |-> <<LocalPathOf(req[1][1], req[1][2], req[1][3]),
                           LocalPathOf(req[2][1], req[2][2], req[2][3])>>,
               repo |-> <<RepoPathOf(req[1][1], req[1][2], req[1][3]),
                          RepoPathOf(req[2][1], req[2][2], req[2][3])>>]
    /\ UNCHANGED <<req, updater>>

NextPaths == Resolve

SpecPaths == InitPaths /\ [][NextPaths]_vars

-----------------------------------------------------------------------------
(* Properties *)

DownloadSteps == {"mkstaging", "open", "chmod", "mkdest", "fetch", "close",
                  "exec", "prerename", "rename"}

\* The steps of Download that run once the staging file is open.
StepsAfterOpen == DownloadSteps \ {"mkstaging", "open"}

\* The last call of p has returned (it was not killed).
Returned(p) == pc[p] = "idle" /\ ret[p] \in {"ok", "err"}

\* The file at the path matches the current metadata of the call's target.
Verified(p, path) ==
    /\ IsFile(path)
    /\ meta[rp(p)] # NoTarget
    /\ CheckFileHash(TargetMeta(meta[rp(p)]), fs[path])

\* C1: a Download call that returns an error, whichever step failed, leaves
\* the file at localPath as it was before the call.
C1_ErrorLeavesLocalPath ==
    \A p \in Procs :
        (Returned(p) /\ ret[p] = "err" /\ failStep[p] \in DownloadSteps)
            => fs[lp(p)] = preFs[p][lp(p)]

\* C2: at every instant of a call, localPath holds the previous artifact or
\* the complete verified new one, and is not empty if an artifact existed.
C2_LocalPathOldOrVerified ==
    \A p \in Procs :
        pc[p] \in DownloadSteps \cup {"write", "smoke", "cleanup", "remove"}
            => \/ fs[lp(p)] = preFs[p][lp(p)]
               \/ Verified(p, lp(p))

\* C3: after a Download call that returned an error no file is at
\* the staging path, whichever step failed.
C3_NoStagingFileAfterError ==
    \A p \in Procs :
        (Returned(p) /\ ret[p] = "err" /\ failStep[p] \in DownloadSteps)
            => fs[stg(p)] = Absent

\* C4: when Get returns a path and no error, the file at the path is a
\* regular file whose hashes match the current TargetMeta of the target.
C4_GetReturnsVerifiedFile ==
    \A p \in Procs :
        (Returned(p) /\ ret[p] = "ok" /\ entry[p] = "Get" /\ lastGet # <<>>)
            => /\ retPath[p] = lp(p)
               /\ Verified(p, retPath[p])

\* C6: a Get that repeats a successful Get, with the metadata and the files
\* unchanged, stays on the cached branch: no fetch, no change to any file,
\* the same path and no error.
C6_SecondGetIsCached ==
    \A p \in Procs :
        second[p] =>
            \/ pc[p] \in {"stat", "lookup", "checkhash"}
            \/ pc[p] = "idle" /\ ret[p] = "crash"
            \/ /\ Returned(p) /\ ret[p] = "ok"
               /\ fetches[p] = 0
               /\ retPath[p] = lp(p)
               /\ fs = preFs[p]

\* The local path held a regular file that did not match the metadata when
\* the call of p began.
StaleAtStart(p) ==
    /\ preFs[p][lp(p)] \in Artifacts
    /\ meta[rp(p)] # NoTarget
    /\ ~CheckFileHash(TargetMeta(meta[rp(p)]), preFs[p][lp(p)])

\* C7: a Get over a regular file that does not match the metadata never
\* returns the cached file: it fetches once, and when it succeeds the file
\* at the local path matches the metadata.
C7_StaleFileIsReplaced ==
    \A p \in Procs :
        (Returned(p) /\ ret[p] = "ok" /\ entry[p] = "Get" /\ lastGet # <<>>
            /\ StaleAtStart(p))
            => /\ fetches[p] = 1
               /\ Verified(p, lp(p))

\* C8: a successful Download publishes exactly the bytes the fetch
\* delivered, whatever was at the staging path before.
C8_PublishedIsWhatWasFetched ==
    \A p \in Procs :
        (pc[p] = "cleanup" /\ ~err[p]) => fs[lp(p)] = src[p].bytes

\* C9: when the declared platform is the running one and the staged binary
\* fails the version query, Download returns an error, localPath is not
\* replaced, and the staging file is removed.
C9_FailedSmokeTestNotPublished ==
    \A p \in Procs :
        /\ smoke[p] = "fail" =>
              /\ ShouldSmokeTest
              /\ fs[lp(p)] = preFs[p][lp(p)]
              /\ \/ pc[p] \in {"cleanup", "remove"} /\ err[p]
                 \/ pc[p] = "idle" /\ ret[p] = "crash"
                 \/ Returned(p) /\ ret[p] = "err" /\ fs[stg(p)] = Absent
        /\ (ShouldSmokeTest /\ pc[p] = "cleanup" /\ ~err[p]) => SmokeOK(fs[lp(p)])

\* C10: when the declared platform differs from the running one, Download
\* never executes the staged binary, and nothing but a failing rename keeps a
\* fetched and verified artifact from being published.
C10_MismatchSkipsSmokeTest ==
    \A p \in Procs :
        optPlatform # runPlatform =>
            /\ smoke[p] \in {"none", "skipped"}
            /\ failStep[p] # "exec"
            /\ smoke[p] = "skipped" =>
                  \/ pc[p] \in {"prerename", "rename", "cleanup", "remove"}
                  \/ pc[p] = "idle" /\ ret[p] = "crash"
                  \/ Returned(p) /\ (ret[p] = "err" => failStep[p] \in {"prerename", "rename"})

\* On a mismatched platform a binary that does not answer the version query
\* was published and the call returned no error.
C10_Witness ==
    \E p \in Procs :
        /\ optPlatform # runPlatform
        /\ Returned(p) /\ ret[p] = "ok" /\ fetches[p] = 1
        /\ IsFile(lp(p)) /\ ~SmokeOK(fs[lp(p)])

\* The call of p owns the staging file: it has opened it and has neither
\* renamed it to localPath nor removed it.
Owns(p) ==
    \/ pc[p] \in {"chmod", "mkdest", "fetch", "write", "close", "smoke",
                  "prerename", "rename"}
    \/ pc[p] \in {"cleanup", "remove"} /\ err[p]

\* C5: two concurrent calls for the same target and channel never own the
\* staging file at the same time.
C5_StagingOwnersSerialized ==
    \A p, q \in Procs :
        (p # q /\ target[p] = target[q] /\ channel[p] = channel[q])
            => ~(Owns(p) /\ Owns(q))

\* The call of p has renamed the staging file to localPath and no step
\* has failed: Download is about to return nil.
Published(p) == pc[p] = "cleanup" /\ ~err[p]

\* C11: on Windows a successful Download over an existing file leaves the
\* previous content at localPath + ".old" and the new verified content at
\* localPath; with no file at localPath the "does not exist" result of the
\* pre-rename is not an error and the call goes on to publish; any other
\* pre-rename error fails the call without publishing.
C11_WindowsKeepsOldAndPublishesVerified ==
    \A p \in Procs :
        runPlatform = "windows" =>
            /\ (Published(p) /\ preFs[p][lp(p)] \in Artifacts)
                   => /\ preRename[p] = "moved"
                      /\ fs[OldPath(lp(p))] = preFs[p][lp(p)]
                      /\ IsFile(lp(p))
                      /\ CheckFileHash(tmeta[p], fs[lp(p)])
            /\ (pc[p] # "idle" /\ preRename[p] = "missing")
                   => /\ preFs[p][lp(p)] = Absent
                      /\ failStep[p] \in {"none", "rename"}
                      /\ pc[p] \in {"rename", "cleanup", "remove"}
            /\ (pc[p] # "idle" /\ preRename[p] = "failed")
                   => /\ pc[p] \in {"cleanup", "remove"}
                      /\ err[p] /\ failStep[p] = "prerename"
                      /\ fs[lp(p)] = preFs[p][lp(p)]
            /\ (pc[p] # "idle" /\ failStep[p] = "prerename") => preRename[p] = "failed"

\* C12: UpdateMetadata returns an error exactly when the refresh failed
\* with an error other than "already at the latest snapshot": the
\* latest-snapshot condition is success.
C12_UpdateMetadataErrorIffRealFailure ==
    /\ refresh \in {"none"} \cup RefreshOutcomes
    /\ refresh # "none" => (updErr <=> refresh = "failed")
    /\ refresh = "none" => ~updErr

\* A refresh reported the latest snapshot and UpdateMetadata returned nil.
C12_Witness == refresh = "latest" /\ ~updErr /\ Idle

\* C13: a Get over a local path that exists and is not a regular file
\* returns an error without a metadata lookup, a fetch or a change to any
\* file.
C13_NonRegularPathIsRefused ==
    \A p \in Procs :
        (entry[p] = "Get" /\ failStep[p] # "args"
            /\ preFs[p][lp(p)] \in {Directory, BrokenLink})
            => /\ pc[p] \in {"stat", "idle"}
               /\ tmeta[p] = NoMeta
               /\ fetches[p] = 0
               /\ fs = preFs[p]
               /\ Returned(p) => (ret[p] = "err" /\ failStep[p] = "stat" /\ retPath[p] = <<>>)

\* C14: a Get over a regular file whose target the metadata does not
\* resolve returns an error: the cached file is not accepted, no download
\* starts, and no file changes.
C14_LookupFailureIsFinal ==
    \A p \in Procs :
        /\ (pc[p] # "idle" /\ entry[p] = "Get" /\ preFs[p][lp(p)] \in Artifacts
               /\ meta[rp(p)] = NoTarget)
              => (pc[p] \in {"stat", "lookup"} /\ fs = preFs[p])
        /\ (Returned(p) /\ failStep[p] = "lookup")
              => /\ ret[p] = "err"
                 /\ retPath[p] = <<>>
                 /\ fetches[p] = 0
                 /\ fs = preFs[p]

\* The fetch of the call of p delivered its whole stream and verified it.
FetchVerified(p) ==
    /\ fetches[p] = 1
    /\ wpos[p] = Len(src[p].bytes)
    /\ ~src[p].fails
    /\ StreamVerified(tmeta[p], src[p].bytes)

\* C16: the pre-rename and the final rename happen only after the fetch
\* verified, the staging file was closed without error and the smoke test
\* passed or was skipped; a failed fetch, verification or close is never
\* followed by a rename.
C16_RenameOnlyAfterVerifyCloseSmoke ==
    \A p \in Procs :
        /\ (pc[p] \in {"prerename", "rename"} \/ Published(p)
               \/ (pc[p] = "cleanup" /\ failStep[p] \in {"prerename", "rename"}))
              => /\ FetchVerified(p)
                 /\ tmp[p] \in {Closed, Unlinked}
                 /\ smoke[p] = IF ShouldSmokeTest THEN "pass" ELSE "skipped"
        /\ ((pc[p] \in {"cleanup", "remove"} \/ Returned(p)) /\ failStep[p] \in {"fetch", "close", "exec"})
              => /\ fs[lp(p)] = preFs[p][lp(p)]
                 /\ fs[OldPath(lp(p))] = preFs[p][OldPath(lp(p))]

\* A call on Windows has moved the existing artifact to ".old" and is at
\* the final rename.
C16_Witness ==
    \E p \in Procs :
        /\ pc[p] = "rename" /\ runPlatform = "windows"
        /\ preFs[p][lp(p)] \in Artifacts
        /\ fs[lp(p)] = Absent
        /\ fs[OldPath(lp(p))] = preFs[p][lp(p)]

\* C17: a Get that returns no error after an earlier call was killed or
\* failed leaves a file at the local path that matches the metadata.
C17_RetryLeavesVerifiedArtifact ==
    \A p \in Procs :
        (Returned(p) /\ ret[p] = "ok" /\ entry[p] = "Get" /\ lastGet # <<>>
            /\ fetches[p] = 1 /\ preFs[p][stg(p)] # Absent)
            => Verified(p, lp(p))

\* C18: two concurrent calls for different local paths never have the same
\* staging file open or in flight.
C18_DistinctLocalPathsDistinctStaging ==
    \A p, q \in Procs :
        (p # q /\ Owns(p) /\ Owns(q) /\ lp(p) # lp(q)) => stg(p) # stg(q)

\* The paths of the two requests have been computed.
Resolved == out # NoPaths

\* A name the path functions keep as one element of the path.
Plain(name) == name \notin {<<>>, Dot, DotDot}

PlainRequest(r) == Plain(r[1]) /\ Plain(r[2]) /\ Plain(r[3])

\* C15 as stated: two requests that differ in target, platform or channel,
\* none of the names containing a separator, never have the same local
\* path or the same repository path.
C15_DistinctRequestsDistinctPaths ==
    (Resolved /\ req[1] # req[2])
        => /\ out.local[1] # out.local[2]
           /\ out.repo[1] # out.repo[2]

\* C15 (amended): the paths are functions of the request, and two
\* requests that differ in target, platform or channel, every name
\* non-empty, not "." and not "..", never have the same local path or the
\* same repository path.
C15_PlainRequestsDistinctPaths ==
    Resolved =>
        /\ req[1] = req[2] => (out.local[1] = out.local[2] /\ out.repo[1] = out.repo[2])
        /\ (req[1] # req[2] /\ PlainRequest(req[1]) /\ PlainRequest(req[2]))
               => /\ out.local[1] # out.local[2]
                  /\ out.repo[1] # out.repo[2]

\* Two requests that differ in nothing but the platform, one of them
\* Windows, have been resolved.
C15_Witness ==
    /\ Resolved
    /\ PlainRequest(req[1]) /\ PlainRequest(req[2])
    /\ req[1][1] = req[2][1] /\ req[1][3] = req[2][3]
    /\ req[1][2] = Spell["windows"] /\ req[2][2] = <<"a">>
    /\ out.local[1] = Spell[Root] \o <<Sep>> \o Spell[binDir] \o <<Sep>> \o req[1][1]
                          \o <<Sep>> \o Spell["windows"] \o <<Sep>> \o req[1][3]
                          \o <<Sep>> \o req[1][1] \o Spell[".exe"]

====
